---- MODULE Spec2Model ----
(***************************************************************************)
(* The dice game Pig of Pig2.py: PlayerFactory, the two Player variants,   *)
(* PigGame.play and TimedGameProxy.play as one state machine.              *)
(* Strings are sequences of one-character strings, so that lower() and     *)
(* strip() are computed character by character.                            *)
(***************************************************************************)
EXTENDS Integers, Sequences, FiniteSets, TLC

VARIABLES labels, timed, pc, attrs, seeded, players, current_player,
          turn_total, elapsed, results, reprompts, last, choice, line, rolls

vars == <<labels, timed, pc, attrs, seeded, players, current_player,
          turn_total, elapsed, results, reprompts, last, choice, line, rolls>>

(* ---------------- bounds of the model ---------------- *)
\* a human may answer 'r' while the turn total is below this
MaxHumanTurn == 50
\* a human answers 'h' at turn total 0 or from this turn total on
MinHumanHold == 50
\* invalid answers a human gives to one prompt
MaxReprompts == 1
\* the clock is not followed beyond this many seconds
MaxElapsed == 60
\* largest turn total handed to a single ComputerPlayer.decide call
MaxDecideTurn == 40
\* largest score handed to a single determine_winner call
MaxFinalScore == 60
\* largest turn total at a single HumanPlayer.decide call
MaxCallTurn == 8
\* invalid answers within a single HumanPlayer.decide call
MaxCallReprompts == 3

(* ---------------- program constants ---------------- *)
DieMin == 1
DieMax == 6
WinScore == 100
ComputerHoldAt == 25
TimeLimit == 60

(* ---------------- strings ---------------- *)
Upper == <<"A","B","C","D","E","F","G","H","I","J","K","L","M",
           "N","O","P","Q","R","S","T","U","V","W","X","Y","Z">>
Lower == <<"a","b","c","d","e","f","g","h","i","j","k","l","m",
           "n","o","p","q","r","s","t","u","v","w","x","y","z">>
Whitespace == {" ", "\t", "\t"}

\* str.lower() on one character
LowerChar(c) ==
  IF \E i \in 1..Len(Upper) : Upper[i] = c
  THEN Lower[CHOOSE i \in 1..Len(Upper) : Upper[i] = c]
  ELSE c

\* str.lower()
lower(s) == [i \in 1..Len(s) |-> LowerChar(s[i])]

\* str.strip(): drops leading and trailing whitespace
strip(s) ==
  LET keep == {i \in 1..Len(s) : s[i] \notin Whitespace}
  IN IF keep = {} THEN <<>>
     ELSE LET lo == CHOOSE i \in keep : \A j \in keep : i <= j
              hi == CHOOSE i \in keep : \A j \in keep : j <= i
          IN SubSeq(s, lo, hi)

Min(a, b) == IF a <= b THEN a ELSE b

(* ---------------- players ---------------- *)
\* Player.__init__
NewPlayer(type, name) == [type |-> type, name |-> name, score |-> 0]

\* create_player comparing the label as given
create_player_exact(player_type, name) ==
  IF player_type = <<"h","u","m","a","n">>
  THEN <<NewPlayer("human", name)>>
  ELSE IF player_type = <<"c","o","m","p","u","t","e","r">>
  THEN <<NewPlayer("computer", name)>>
  ELSE <<>>

\* PlayerFactory.create_player: a one-element sequence holding the player,
\* or the empty sequence when ValueError is raised
create_player(player_type, name) ==
  IF lower(player_type) = <<"h","u","m","a","n">>
  THEN <<NewPlayer("human", name)>>
  ELSE IF lower(player_type) = <<"c","o","m","p","u","t","e","r">>
  THEN <<NewPlayer("computer", name)>>
  ELSE <<>>

\* decide with > for >=
ComputerDecideStrict(score, tt) ==
  IF tt > Min(ComputerHoldAt, WinScore - score) THEN "h" ELSE "r"

\* decide with max for min
ComputerDecideMax(score, tt) ==
  IF tt >= (IF ComputerHoldAt >= WinScore - score
            THEN ComputerHoldAt ELSE WinScore - score)
  THEN "h" ELSE "r"

\* ComputerPlayer.decide
ComputerDecide(score, tt) ==
  IF tt >= Min(ComputerHoldAt, WinScore - score) THEN "h" ELSE "r"

\* one pass of decide without strip()
HumanChoiceNoStrip(inp) ==
  LET answer == lower(inp)
  IN IF answer = <<"r">> THEN "r"
     ELSE IF answer = <<"h">> THEN "h"
     ELSE ""

\* HumanPlayer.decide, one pass of its loop on one line of input:
\* the choice returned, or "" when the loop prompts again
HumanChoice(inp) ==
  LET answer == lower(strip(inp))
  IN IF answer = <<"r">> THEN "r"
     ELSE IF answer = <<"h">> THEN "h"
     ELSE ""

\* Player.add_score on player i (1-based) of ps
add_score(ps, i, points) ==
  [ps EXCEPT ![i].score = ps[i].score + points]

\* determine_winner giving an equal score to Player 1
determine_winner_ge(ps) ==
  IF ps[1].score >= ps[2].score THEN [kind |-> "win", who |-> 0, by |-> "time"]
  ELSE IF ps[2].score > ps[1].score THEN [kind |-> "win", who |-> 1, by |-> "time"]
  ELSE [kind |-> "tie", who |-> 0, by |-> "time"]

\* TimedGameProxy.determine_winner
determine_winner(ps) ==
  IF ps[1].score > ps[2].score THEN [kind |-> "win", who |-> 0, by |-> "time"]
  ELSE IF ps[2].score > ps[1].score THEN [kind |-> "win", who |-> 1, by |-> "time"]
  ELSE [kind |-> "tie", who |-> 0, by |-> "time"]

(* ---------------- inputs ---------------- *)
GameLabels == { <<"h","u","m","a","n">>, <<"H","U","M","A","N">>,
                <<"c","o","m","p","u","t","e","r">>,
                <<"C","o","m","p","u","t","e","r">>,
                <<"a","l","i","e","n">> }

HumanInputs == { <<"r">>, <<"h">>, <<" ","R","\t">>, <<"H"," ">>,
                 <<"x">>, <<>>, <<"r"," ","h">> }

TickSteps == {60}

(* ---------------- the state machine ---------------- *)
Cur == players[current_player + 1]

Init ==
  /\ labels \in GameLabels \X GameLabels
  /\ timed \in BOOLEAN
  /\ pc = "setup"
  /\ attrs = {}
  /\ seeded = FALSE
  /\ players = <<>>
  /\ current_player = 0
  /\ turn_total = 0
  /\ elapsed = 0
  /\ results = <<>>
  /\ reprompts = 0
  /\ last = "none"
  /\ choice = ""
  /\ line = <<>>
  /\ rolls = 0

\* PigGame.__init__ / TimedGameProxy.__init__ called by main
Construct ==
  /\ pc = "setup"
  /\ LET p1 == create_player(labels[1], "Player 1")
         p2 == IF p1 = <<>> THEN <<>> ELSE create_player(labels[2], "Player 2")
         ok == p1 # <<>> /\ p2 # <<>>
     IN /\ seeded' = TRUE
        /\ players' = p1 \o p2
        /\ attrs' = IF ~ok THEN {"die"}
                    ELSE {"die", "players", "current_player"}
                         \cup (IF timed THEN {"game", "start_time"} ELSE {})
        /\ pc' = IF ok THEN "turn_start" ELSE "error"
  /\ labels' = <<>>
  /\ last' = "construct"
  /\ UNCHANGED <<rolls, timed, current_player, turn_total, elapsed, results, reprompts,
                 choice, line>>

\* the wall clock advances (timed game only reads it)
Tick ==
  /\ timed
  /\ pc \in {"turn_start", "check", "decide"}
  /\ \E d \in TickSteps :
       /\ elapsed + d <= MaxElapsed
       /\ elapsed' = elapsed + d
  /\ UNCHANGED <<rolls, labels, timed, pc, attrs, seeded, players, current_player,
                 turn_total, results, reprompts, last, choice, line>>

\* the deadline test with > for >=
ExpiredStrict == elapsed > TimeLimit

\* the deadline test of TimedGameProxy.play
Expired == elapsed >= TimeLimit

\* top of the outer loop: TimedGameProxy.play's deadline check, then the
\* new turn
TurnBegin ==
  /\ pc = "turn_start"
  /\ ~(timed /\ Expired)
  /\ turn_total' = 0
  /\ pc' = IF timed THEN "check" ELSE "decide"
  /\ last' = "turn"
  /\ UNCHANGED <<labels, timed, attrs, seeded, players, current_player,
                 elapsed, results, reprompts, choice, line>>

TurnStart == TurnBegin /\ UNCHANGED rolls

\* a timeout at turn start that announces the result and plays on
TimeUpAtTurnStartGoOn ==
  /\ pc = "turn_start"
  /\ timed /\ Expired
  /\ results' = Append(results, determine_winner(players))
  /\ pc' = "check"
  /\ last' = "timeup"
  /\ UNCHANGED <<rolls, labels, timed, attrs, seeded, players, current_player,
                 turn_total, elapsed, reprompts, choice, line>>

TimeUpAtTurnStart ==
  /\ pc = "turn_start"
  /\ timed /\ Expired
  /\ results' = Append(results, determine_winner(players))
  /\ pc' = "done"
  /\ last' = "timeup"
  /\ UNCHANGED <<rolls, labels, timed, attrs, seeded, players, current_player,
                 turn_total, elapsed, reprompts, choice, line>>

\* an inner loop that goes on to the decision whatever the clock says
TurnCheckLate ==
  /\ pc = "check"
  /\ pc' = "decide"
  /\ last' = "check"
  /\ UNCHANGED <<rolls, labels, timed, attrs, seeded, players, current_player,
                 turn_total, elapsed, results, reprompts, choice, line>>

\* an inner loop whose deadline check clears the turn total
TurnCheckReset ==
  /\ pc = "check"
  /\ ~Expired
  /\ pc' = "decide"
  /\ last' = "check"
  /\ turn_total' = 0
  /\ UNCHANGED <<rolls, labels, timed, attrs, seeded, players, current_player,
                 elapsed, results, reprompts, choice, line>>

\* top of the inner loop of TimedGameProxy.play
TurnCheck ==
  /\ pc = "check"
  /\ ~Expired
  /\ pc' = "decide"
  /\ last' = "check"
  /\ UNCHANGED <<rolls, labels, timed, attrs, seeded, players, current_player,
                 turn_total, elapsed, results, reprompts, choice, line>>

\* a timeout that banks the turn total
TimeUpInTurnBank ==
  /\ pc = "check"
  /\ Expired
  /\ players' = add_score(players, current_player + 1, turn_total)
  /\ results' = Append(results, determine_winner(players'))
  /\ pc' = "done"
  /\ last' = "timeup"
  /\ UNCHANGED <<rolls, labels, timed, attrs, seeded, current_player,
                 turn_total, elapsed, reprompts, choice, line>>

TimeUpInTurn ==
  /\ pc = "check"
  /\ Expired
  /\ results' = Append(results, determine_winner(players))
  /\ pc' = "done"
  /\ last' = "timeup"
  /\ UNCHANGED <<rolls, labels, timed, attrs, seeded, players, current_player,
                 turn_total, elapsed, reprompts, choice, line>>

\* the win check with > for >=
EndTurnStrict(ps) ==
  IF ps[current_player + 1].score > WinScore
  THEN /\ results' = Append(results, [kind |-> "win", who |-> current_player, by |-> "score"])
       /\ pc' = "done"
       /\ current_player' = current_player
  ELSE /\ results' = results
       /\ pc' = "turn_start"
       /\ current_player' = 1 - current_player

\* the end of a turn without switch_turn
EndTurnNoSwitch(ps) ==
  IF ps[current_player + 1].score >= WinScore
  THEN /\ results' = Append(results, [kind |-> "win", who |-> current_player, by |-> "score"])
       /\ pc' = "done"
       /\ current_player' = current_player
  ELSE /\ results' = results
       /\ pc' = "turn_start"
       /\ current_player' = current_player

\* the end of a turn with the win check on the other player
EndTurnOther(ps) ==
  IF ps[2 - current_player].score >= WinScore
  THEN /\ results' = Append(results, [kind |-> "win", who |-> current_player, by |-> "score"])
       /\ pc' = "done"
       /\ current_player' = current_player
  ELSE /\ results' = results
       /\ pc' = "turn_start"
       /\ current_player' = 1 - current_player

\* the end of a turn: win check, then switch_turn
EndTurn(ps) ==
  IF ps[current_player + 1].score >= WinScore
  THEN /\ results' = Append(results, [kind |-> "win", who |-> current_player, by |-> "score"])
       /\ pc' = "done"
       /\ current_player' = current_player
  ELSE /\ results' = results
       /\ pc' = "turn_start"
       /\ current_player' = 1 - current_player

\* a roll whose bust keeps the turn total
DoRollKeep ==
  \E roll \in DieMin..DieMax :
    IF roll = 1
    THEN /\ turn_total' = turn_total
         /\ players' = players
         /\ EndTurn(players)
         /\ last' = "bust"
    ELSE /\ turn_total' = turn_total + roll
         /\ pc' = IF timed THEN "check" ELSE "decide"
         /\ last' = "roll"
         /\ UNCHANGED <<players, current_player, results>>

\* choice 'r'
DoRoll ==
  \E roll \in DieMin..DieMax :
    IF roll = 1
    THEN /\ turn_total' = 0
         /\ players' = players
         /\ EndTurn(players)
         /\ last' = "bust"
    ELSE /\ turn_total' = turn_total + roll
         /\ pc' = IF timed THEN "check" ELSE "decide"
         /\ last' = "roll"
         /\ UNCHANGED <<players, current_player, results>>

\* a hold that does not add the turn total
DoHoldNoAdd ==
  /\ players' = players
  /\ EndTurn(players')
  /\ turn_total' = turn_total
  /\ last' = "hold"

\* choice 'h'
DoHold ==
  /\ players' = add_score(players, current_player + 1, turn_total)
  /\ EndTurn(players')
  /\ turn_total' = turn_total
  /\ last' = "hold"

Act(c) ==
  IF c = "r" THEN DoRoll ELSE DoHold

\* a computer that answers r or h as it likes
ComputerMoveAny ==
  /\ pc = "decide"
  /\ Cur.type = "computer"
  /\ choice' \in {"r", "h"}
  /\ Act(choice')
  /\ UNCHANGED <<labels, timed, attrs, seeded, elapsed, reprompts, line>>

\* one pass of the inner loop with a computer in turn
ComputerMove ==
  /\ pc = "decide"
  /\ Cur.type = "computer"
  /\ choice' = ComputerDecide(Cur.score, turn_total)
  /\ Act(choice')
  /\ UNCHANGED <<labels, timed, attrs, seeded, elapsed, reprompts, line>>

ComputerStep == ComputerMove /\ UNCHANGED rolls

HumanStep ==
  /\ pc = "decide"
  /\ Cur.type = "human"
  /\ \E inp \in HumanInputs :
       /\ HumanChoice(inp) # ""
       /\ HumanChoice(inp) = "r" =>
            turn_total < MaxHumanTurn \/ turn_total < MinHumanHold
       /\ HumanChoice(inp) = "h" =>
            turn_total = 0 \/ turn_total >= MinHumanHold
       /\ choice' = HumanChoice(inp)
       /\ Act(choice')
  /\ reprompts' = 0
  /\ UNCHANGED <<rolls, labels, timed, attrs, seeded, elapsed, line>>

HumanInvalid ==
  /\ pc = "decide"
  /\ Cur.type = "human"
  /\ reprompts < MaxReprompts
  /\ \E inp \in HumanInputs : HumanChoice(inp) = ""
  /\ reprompts' = reprompts + 1
  /\ last' = "invalid"
  /\ UNCHANGED <<rolls, labels, timed, pc, attrs, seeded, players, current_player,
                 turn_total, elapsed, results, choice, line>>

Next ==
  \/ Construct
  \/ Tick
  \/ TurnStart
  \/ TimeUpAtTurnStart
  \/ TurnCheck
  \/ TimeUpInTurn
  \/ ComputerStep
  \/ HumanStep
  \/ HumanInvalid

Spec == Init /\ [][Next]_vars

(* ---------------- the untimed game alone ---------------- *)
InitUntimed == Init /\ ~timed

NextUntimed ==
  \/ Construct
  \/ TurnStart
  \/ ComputerStep
  \/ HumanStep
  \/ HumanInvalid

SpecUntimed == InitUntimed /\ [][NextUntimed]_vars

(* ---------------- computer against computer, untimed ---------------- *)
InitCC ==
  /\ Init
  /\ ~timed
  /\ lower(labels[1]) = <<"c","o","m","p","u","t","e","r">>
  /\ lower(labels[2]) = <<"c","o","m","p","u","t","e","r">>

NextCC ==
  \/ Construct
  \/ TurnStart
  \/ ComputerStep

SpecCC == InitCC /\ [][NextCC]_vars

\* the same game with the die rolls of the turn in progress counted in rolls
CountedTurnStart == TurnBegin /\ rolls' = 0

CountedComputerStep ==
  /\ ComputerMove
  /\ rolls' = IF choice' = "r" THEN rolls + 1 ELSE rolls

NextCCRolls ==
  \/ Construct
  \/ CountedTurnStart
  \/ CountedComputerStep

SpecCCRolls == InitCC /\ [][NextCCRolls]_vars

(* ---------------- a timed game of two humans, running ---------------- *)
InitTimedHumans ==
  /\ Init
  /\ timed
  /\ lower(labels[1]) = <<"h","u","m","a","n">>
  /\ lower(labels[2]) = <<"h","u","m","a","n">>

\* the steps the program takes by itself once every decide call returns
ProgramStepHumans ==
  \/ Construct
  \/ TurnStart
  \/ TimeUpAtTurnStart
  \/ TurnCheck
  \/ TimeUpInTurn
  \/ HumanStep

NextTimedHumans ==
  \/ ProgramStepHumans
  \/ HumanInvalid
  \/ Tick

\* the program keeps running, every prompt is answered in the end, and the
\* wall clock keeps advancing
SpecTimedHumansFair ==
  /\ InitTimedHumans
  /\ [][NextTimedHumans]_vars
  /\ WF_vars(ProgramStepHumans)
  /\ WF_vars(Tick)

\* the untimed game of two computers keeps running
SpecCCFair == InitCC /\ [][NextCC]_vars /\ WF_vars(NextCC)

(* ---------------- single calls ---------------- *)
human == <<"h","u","m","a","n">>
computer == <<"c","o","m","p","u","t","e","r">>

UpperChar(c) ==
  IF \E i \in 1..Len(Lower) : Lower[i] = c
  THEN Upper[CHOOSE i \in 1..Len(Lower) : Lower[i] = c]
  ELSE c

\* every spelling of word w in upper and lower case letters
CaseVariants(w) ==
  { [i \in 1..Len(w) |-> IF i \in S THEN UpperChar(w[i]) ELSE w[i]] :
      S \in SUBSET (1..Len(w)) }

OtherLabels == { <<"a","l","i","e","n">>, <<>>, <<"h","u","m","a","n","s">>,
                 <<"h","u","m","a">>, <<" ","h","u","m","a","n">>,
                 <<"C","O","M","P","U","T","E","R"," ">>, <<"h">>,
                 <<"c","o","m","p","u","t","o","r">>, <<"r","o","b","o","t">> }

FactoryLabels == CaseVariants(human) \cup CaseVariants(computer) \cup OtherLabels
PlayerNames == {"A", "B", "Player 1"}

Blank ==
  /\ timed = FALSE
  /\ attrs = {}
  /\ seeded = FALSE
  /\ current_player = 0
  /\ elapsed = 0
  /\ results = <<>>
  /\ reprompts = 0
  /\ last = "none"
  /\ choice = ""
  /\ line = <<>>
  /\ rolls = 0

\* one call PlayerFactory.create_player(label, name)
InitFactory ==
  /\ Blank
  /\ labels \in FactoryLabels \X PlayerNames
  /\ pc = "call"
  /\ players = <<>>
  /\ turn_total = 0

CreateCall ==
  /\ pc = "call"
  /\ Len(labels) = 2
  /\ players = <<>>
  /\ players' = create_player(labels[1], labels[2])
  /\ pc' = IF players' = <<>> THEN "raised" ELSE "returned"
  /\ last' = "create_player"
  /\ UNCHANGED <<rolls, labels, timed, attrs, seeded, current_player, turn_total,
                 elapsed, results, reprompts, choice, line>>

SpecFactory == InitFactory /\ [][CreateCall]_vars

\* one call ComputerPlayer.decide(turn_total) on a player of any score below 100
InitDecide ==
  /\ Blank
  /\ labels = <<>>
  /\ pc = "call"
  /\ \E sc \in 0..(WinScore - 1) :
       players = <<[NewPlayer("computer", "Player 1") EXCEPT !.score = sc]>>
  /\ turn_total \in 0..MaxDecideTurn

DecideCall ==
  /\ pc = "call"
  /\ Len(players) = 1
  /\ choice' = ComputerDecide(Cur.score, turn_total)
  /\ pc' = "returned"
  /\ last' = "decide"
  /\ UNCHANGED <<rolls, labels, timed, attrs, seeded, players, current_player,
                 turn_total, elapsed, results, reprompts, line>>

SpecDecide == InitDecide /\ [][DecideCall]_vars

\* one call TimedGameProxy.determine_winner() on any two scores
InitWinner ==
  /\ Blank
  /\ labels = <<>>
  /\ pc = "call"
  /\ \E s1 \in 0..MaxFinalScore, s2 \in 0..MaxFinalScore :
       players = <<[NewPlayer("human", "Player 1") EXCEPT !.score = s1],
                   [NewPlayer("computer", "Player 2") EXCEPT !.score = s2]>>
  /\ turn_total = 0

WinnerCall ==
  /\ pc = "call"
  /\ Len(players) = 2
  /\ results' = Append(results, determine_winner(players))
  /\ pc' = "returned"
  /\ last' = "timeup"
  /\ UNCHANGED <<rolls, labels, timed, attrs, seeded, players, current_player,
                 turn_total, elapsed, reprompts, choice, line>>

SpecWinner == InitWinner /\ [][WinnerCall]_vars

\* one call HumanPlayer.decide(turn_total) during a game of two humans that
\* have not scored yet, line by line
InitHuman ==
  /\ labels = <<>>
  /\ timed = FALSE
  /\ attrs = {"die", "players", "current_player"}
  /\ seeded = TRUE
  /\ players = <<NewPlayer("human", "Player 1"), NewPlayer("human", "Player 2")>>
  /\ current_player \in 0..1
  /\ turn_total \in {0} \cup (2..MaxCallTurn)
  /\ pc = "decide"
  /\ elapsed = 0
  /\ results = <<>>
  /\ reprompts = 0
  /\ last = IF turn_total = 0 THEN "turn" ELSE "roll"
  /\ choice = ""
  /\ line = <<>>
  /\ rolls = 0

HumanPrompt ==
  /\ pc = "decide"
  /\ Cur.type = "human"
  /\ \E inp \in HumanInputs :
       /\ line' = inp
       /\ IF HumanChoice(inp) = ""
          THEN /\ reprompts < MaxCallReprompts
               /\ reprompts' = reprompts + 1
               /\ last' = "invalid"
               /\ UNCHANGED <<pc, choice>>
          ELSE /\ choice' = HumanChoice(inp)
               /\ pc' = "returned"
               /\ last' = "choice"
               /\ UNCHANGED reprompts
  /\ UNCHANGED <<rolls, labels, timed, attrs, seeded, players, current_player,
                 turn_total, elapsed, results>>

SpecHuman == InitHuman /\ [][HumanPrompt]_vars

(* ---------------- properties ---------------- *)
InGame == pc \in {"turn_start", "check", "decide", "done"}
Score(i) == players[i + 1].score

\* C1: an untimed game is over exactly when some score is >= 100; the one
\* result announced then names a player whose score is >= 100, and the two
\* scores are never both >= 100.
C1_UntimedEndsAtHundred ==
  (InGame /\ ~timed) =>
    /\ (pc = "done") <=> (Score(0) >= 100 \/ Score(1) >= 100)
    /\ ~(Score(0) >= 100 /\ Score(1) >= 100)
    /\ pc # "done" => results = <<>>
    /\ pc = "done" =>
         /\ Len(results) = 1
         /\ results[1].kind = "win"
         /\ results[1].by = "score"
         /\ Score(results[1].who) >= 100

C1_Witness ==
  /\ ~timed /\ pc = "done"
  /\ results = <<[kind |-> "win", who |-> 1, by |-> "score"]>>
  /\ Score(1) = 100 /\ Score(0) < 100

\* a step in which the die was rolled
RollStep == pc = "decide" /\ last' \in {"roll", "bust"}
\* a step in which the player held
HoldStep == pc = "decide" /\ last' = "hold"

\* C2: a roll either adds a die value of 2..6 to turn_total and leaves the
\* same player in the turn, or (die value 1) sets turn_total to 0 and ends
\* the turn; in both engines.
C2_RollEffect ==
  [][RollStep =>
       \/ /\ last' = "roll"
          /\ \E r \in 2..6 : turn_total' = turn_total + r
          /\ current_player' = current_player
          /\ pc' = IF timed THEN "check" ELSE "decide"
          /\ players' = players
       \/ /\ last' = "bust"
          /\ turn_total' = 0
          /\ pc' = "turn_start"
          /\ current_player' = 1 - current_player
          /\ players' = players]_vars

C2_Witness ==
  /\ timed /\ last = "roll" /\ pc = "check"
  /\ turn_total = 11 /\ Score(current_player) > 0

\* C3: a hold adds exactly turn_total to the score of the player in turn and
\* to no other, ends the turn, and every turn begins with turn_total = 0.
C3_HoldEffect ==
  [][(HoldStep =>
        /\ players'[current_player + 1].score = Score(current_player) + turn_total
        /\ players'[2 - current_player].score = Score(1 - current_player)
        /\ pc' \in {"turn_start", "done"})
     /\
     ((pc = "turn_start" /\ pc' \in {"check", "decide"}) =>
        /\ turn_total' = 0
        /\ last' = "turn")]_vars

C3_Witness ==
  /\ last = "turn" /\ turn_total = 0 /\ pc \in {"check", "decide"}
  /\ Score(1 - current_player) >= 25 /\ choice = "h"

\* C4: no score ever decreases, and a score changes only in a hold and only
\* for the player in turn; rolls, busts, turn starts, deadline checks and
\* timeouts leave both scores as they are.
C4_ScoreFrame ==
  [][InGame =>
       \A i \in 0..1 :
         /\ Score(i)' >= Score(i)
         /\ Score(i)' # Score(i) => (HoldStep /\ i = current_player)]_vars

C4_Witness ==
  /\ timed /\ pc = "done" /\ last = "timeup"
  /\ Score(0) > 0 /\ Score(1) > 0 /\ turn_total > 0

\* C5: ComputerPlayer.decide on a score of 0..99 answers hold exactly when
\* turn_total >= min(25, 100 - score), and roll otherwise.
C5_ComputerThreshold ==
  (pc = "returned" /\ last = "decide") =>
    LET sc == players[1].score
        threshold == IF sc <= 75 THEN 25 ELSE 100 - sc
    IN /\ sc \in 0..99
       /\ choice \in {"r", "h"}
       /\ (choice = "h") <=> (turn_total >= threshold)

C5_Witness ==
  /\ pc = "returned" /\ last = "decide"
  /\ players[1].score = 85 /\ turn_total = 15 /\ choice = "h"

\* C6: in a timed game a decision is queried only after a deadline check
\* that saw less than 60 seconds, and a check (at turn start or before a
\* decision) that sees 60 seconds or more ends the game there: no roll, no
\* hold, turn_total added to no score, the result decided by the scores alone.
C6_ScoresNow ==
  IF Score(0) > Score(1) THEN [kind |-> "win", who |-> 0, by |-> "time"]
  ELSE IF Score(1) > Score(0) THEN [kind |-> "win", who |-> 1, by |-> "time"]
  ELSE [kind |-> "tie", who |-> 0, by |-> "time"]

C6_DeadlineCheck ==
  [][timed =>
       /\ (pc # "decide" /\ pc' = "decide") =>
            (pc = "check" /\ elapsed < 60)
       /\ (pc = "decide" /\ pc' # "decide") =>
            pc' \in {"check", "turn_start", "done"}
       /\ (pc \in {"turn_start", "check"} /\ elapsed >= 60 /\ elapsed' = elapsed) =>
            /\ pc' = "done"
            /\ players' = players
            /\ last' = "timeup"
            /\ results' = <<C6_ScoresNow>>
       /\ pc # "done"]_vars

C6_Witness ==
  /\ timed /\ pc = "done" /\ last = "timeup"
  /\ turn_total > 0
  /\ Score(current_player) < 100
  /\ Score(current_player) + turn_total >= 100
  /\ Score(current_player) < Score(1 - current_player)
  /\ results = <<[kind |-> "win", who |-> 1 - current_player, by |-> "time"]>>

\* C7: determine_winner declares Player 1 iff score1 > score2, Player 2 iff
\* score2 > score1, and a tie iff the scores are equal.
C7_DetermineWinner ==
  (pc = "returned" /\ last = "timeup") =>
    /\ Len(results) = 1
    /\ (results[1].kind = "win" /\ results[1].who = 0) <=> (Score(0) > Score(1))
    /\ (results[1].kind = "win" /\ results[1].who = 1) <=> (Score(1) > Score(0))
    /\ (results[1].kind = "tie") <=> (Score(0) = Score(1))
    /\ results[1].kind \in {"win", "tie"}

C7_Witness ==
  /\ pc = "returned" /\ last = "timeup"
  /\ Score(0) = 30 /\ Score(1) = 30
  /\ results[1].kind = "tie"

IsCaseVariant(label, w) ==
  /\ Len(label) = Len(w)
  /\ \A i \in 1..Len(w) : label[i] \in {w[i], UpperChar(w[i])}

\* C8: create_player returns a human player for every case variant of
\* "human", a computer player for every case variant of "computer", with the
\* given name and score 0, and raises (returning no player) for any other label.
C8_FactoryLabels ==
  (pc \in {"returned", "raised"} /\ last = "create_player") =>
    LET label == labels[1]
        name == labels[2]
    IN /\ IsCaseVariant(label, human) =>
            (pc = "returned" /\ players = <<[type |-> "human", name |-> name, score |-> 0]>>)
       /\ IsCaseVariant(label, computer) =>
            (pc = "returned" /\ players = <<[type |-> "computer", name |-> name, score |-> 0]>>)
       /\ (~IsCaseVariant(label, human) /\ ~IsCaseVariant(label, computer)) =>
            (pc = "raised" /\ players = <<>>)

C8_Witness ==
  /\ pc = "returned" /\ last = "create_player"
  /\ labels = << <<"C","o","m","p","u","t","e","r">>, "B" >>
  /\ players = <<[type |-> "computer", name |-> "B", score |-> 0]>>

\* C9: when a player type label is not recognized, the failure leaves no game
\* state behind: no die created or seeded, no player object, no attribute set.
C9_NothingCreatedOnError ==
  pc = "error" =>
    /\ ~seeded
    /\ attrs = {}
    /\ players = <<>>

IsChoiceLine(l, lo, up) ==
  \E i \in 1..Len(l) :
    /\ l[i] \in {lo, up}
    /\ \A j \in 1..Len(l) : j # i => l[j] \in {" ", "\t"}

\* C10: HumanPlayer.decide returns only roll or hold, on the first line that
\* is r or h up to case and surrounding whitespace; every other line makes it
\* prompt again; no line changes scores, turn_total or the current player.
C10_HumanDecide ==
  [][(pc = "decide" /\ Cur.type = "human") =>
       /\ players' = players
       /\ turn_total' = turn_total
       /\ current_player' = current_player
       /\ IF IsChoiceLine(line', "r", "R")
          THEN pc' = "returned" /\ choice' = "r"
          ELSE IF IsChoiceLine(line', "h", "H")
          THEN pc' = "returned" /\ choice' = "h"
          ELSE /\ pc' = "decide"
               /\ reprompts' = reprompts + 1
               /\ last' = "invalid"
               /\ choice' = choice]_vars

C10_Witness ==
  /\ pc = "returned" /\ reprompts = 2
  /\ line = <<"H"," ">> /\ choice = "h"
  /\ turn_total = 7 /\ current_player = 1

(* ---------------- the game as a function of decisions and rolls ------- *)
\* what a run shows of its state: a deadline check that lets the game go on
\* is not told apart from the decision it precedes
View ==
  [pc |-> IF pc = "check" THEN "decide" ELSE pc,
   cur |-> current_player,
   tt |-> turn_total,
   players |-> players,
   results |-> results]

\* lines 101-105 of PigGame.play on a view
AfterTurn(v) ==
  IF v.players[v.cur + 1].score >= 100
  THEN [v EXCEPT !.pc = "done",
                 !.results = Append(@, [kind |-> "win", who |-> v.cur, by |-> "score"])]
  ELSE [v EXCEPT !.pc = "turn_start", !.cur = 1 - v.cur]

\* one pass of PigGame.play's loops on a view, for decision c and die value r
PlayStep(v, c, r) ==
  IF v.pc = "turn_start" THEN [v EXCEPT !.pc = "decide", !.tt = 0]
  ELSE IF c = "r"
  THEN IF r = 1 THEN AfterTurn([v EXCEPT !.tt = 0])
       ELSE [v EXCEPT !.tt = v.tt + r]
  ELSE AfterTurn([v EXCEPT !.players[v.cur + 1].score = @ + v.tt])

BothComputers ==
  /\ Len(players) = 2
  /\ players[1].type = "computer"
  /\ players[2].type = "computer"

\* C11: in an untimed game of two computers the die is seeded and every step
\* leads to the one state fixed by the current state and the die value read,
\* so two runs reading the same rolls pass through the same states and end
\* with the same scores and winner.
C11_DeterminedByRolls ==
  [][(InGame /\ BothComputers /\ ~timed) =>
       /\ seeded
       /\ LET sc == Score(current_player)
              c == IF turn_total >= (IF sc <= 75 THEN 25 ELSE 100 - sc)
                   THEN "h" ELSE "r"
          IN /\ pc = "decide" => choice' = c
             /\ \E r \in 1..6 : View' = PlayStep(View, c, r)
             /\ (pc = "turn_start" \/ c = "h") =>
                  \A r \in 1..6 : View' = PlayStep(View, c, r)]_vars

C11_Witness ==
  /\ BothComputers /\ ~timed /\ pc = "done"
  /\ results = <<[kind |-> "win", who |-> 0, by |-> "score"]>>
  /\ Score(0) = 103 /\ Score(1) = 81

\* a step that ends a turn: a bust or a hold
TurnEndStep == pc = "decide" /\ last' \in {"bust", "hold"}

\* C12: in both engines current_player is 0 or 1 and is 0 after construction;
\* it changes only in a step that ends a turn, and every turn end that does
\* not end the game (a bust, or a hold leaving the score below 100) hands the
\* turn to the other player.
C12_TurnOrder ==
  /\ [](InGame => current_player \in {0, 1})
  /\ [][/\ (pc = "setup" /\ pc' = "turn_start") => current_player' = 0
        /\ InGame =>
             /\ current_player' # current_player => TurnEndStep
             /\ (TurnEndStep /\ players'[current_player + 1].score < 100) =>
                  /\ current_player' = 1 - current_player
                  /\ pc' = "turn_start"
             /\ (TurnEndStep /\ last' = "bust") =>
                  current_player' = 1 - current_player]_vars

C12_Witness ==
  /\ timed /\ pc = "turn_start" /\ last = "bust"
  /\ current_player = 0 /\ Score(0) > 0 /\ Score(1) > 0

\* C13: a timed game whose clock keeps advancing and whose decide calls
\* return always stops, by a score win or by a deadline check, whatever the
\* rolls.
C13_TimedGameStops ==
  <>(pc = "done")

C13_Witness ==
  /\ timed /\ pc = "done" /\ last = "timeup"
  /\ Score(0) = 0 /\ Score(1) = 0
  /\ results = <<[kind |-> "tie", who |-> 0, by |-> "time"]>>

\* C14: once the clock shows 60 seconds or more, a pending decision is the
\* last one: its roll or hold still takes effect (an invalid answer only
\* repeats the prompt), after which the game is at a deadline check or over,
\* and a deadline check then ends the game without asking for a decision.
C14_OneDecisionAfterExpiry ==
  [][(timed /\ InGame /\ elapsed >= 60 /\ elapsed' = elapsed) =>
       \/ /\ pc = "decide"
          /\ last' \in {"roll", "bust", "hold"}
          /\ pc' \in {"check", "turn_start", "done"}
       \/ /\ pc = "decide"
          /\ last' = "invalid"
          /\ View' = View
       \/ /\ pc \in {"check", "turn_start"}
          /\ pc' = "done"
          /\ last' = "timeup"
          /\ players' = players]_vars

C14_Witness ==
  /\ timed /\ elapsed >= 60 /\ pc = "done"
  /\ last = "hold" /\ turn_total > 0
  /\ results = <<[kind |-> "win", who |-> current_player, by |-> "score"]>>

\* C15: while a turn is starting or in progress both scores are below 100,
\* in both engines; the win check after a bust never ends the game, and a
\* game ends by score only in a hold step, won by the holder.
C15_ScoreEndOnlyAfterHold ==
  /\ [](pc \in {"turn_start", "check", "decide"} =>
          (Score(0) < 100 /\ Score(1) < 100))
  /\ [][InGame =>
          /\ last' = "bust" => pc' = "turn_start"
          /\ (pc # "done" /\ pc' = "done" /\ last' # "timeup") =>
               /\ HoldStep
               /\ results' = <<[kind |-> "win", who |-> current_player, by |-> "score"]>>
               /\ players'[current_player + 1].score >= 100]_vars

C15_Witness ==
  /\ timed /\ pc = "turn_start" /\ last = "bust"
  /\ Score(0) >= 25 /\ Score(1) >= 25 /\ current_player = 1

\* C16: leaving aside the steps in which a deadline check sees 60 seconds or
\* more, the timed and the untimed engine make the same moves: every step of
\* either leaves (current player, turn_total, scores, result) untouched or
\* changes them as one pass of PigGame.play does for the decision taken and
\* some die value, so on equal decisions and rolls they pass through the
\* same states and name the same winner.
C16_TimedFollowsUntimed ==
  [][(InGame /\ last' # "timeup") =>
       \/ /\ View' = View
          /\ (timed /\ last' \in {"check", "invalid"}) \/ elapsed' # elapsed
               \/ (~timed /\ last' = "invalid")
       \/ /\ pc \in {"turn_start", "decide"}
          /\ \E r \in 1..6 : View' = PlayStep(View, choice', r)]_vars

C16_Witness ==
  /\ timed /\ elapsed < 60 /\ pc = "done"
  /\ results = <<[kind |-> "win", who |-> 1, by |-> "score"]>>
  /\ Score(1) >= 100 /\ Score(0) > 0

\* C17: a game that is over has announced exactly one result and nothing
\* changes afterwards (so a score win and a timeout resolution never both
\* happen); a game not over has announced none; a declared winner has
\* strictly more points than the opponent, and a tie is declared only by a
\* timeout with equal scores.
C17_OneFinalResult ==
  /\ [](InGame =>
          /\ pc # "done" => results = <<>>
          /\ pc = "done" =>
               /\ Len(results) = 1
               /\ results[1].by = "score" => (~timed \/ last = "hold")
               /\ results[1].by = "time" => (timed /\ last = "timeup")
               /\ results[1].kind = "win" =>
                    Score(results[1].who) > Score(1 - results[1].who)
               /\ results[1].kind = "tie" =>
                    (results[1].by = "time" /\ Score(0) = Score(1)))
  /\ [][pc # "done"]_vars

C17_Witness ==
  /\ timed /\ pc = "done"
  /\ results = <<[kind |-> "tie", who |-> 0, by |-> "time"]>>
  /\ Score(0) = Score(1) /\ Score(0) > 0

\* C18: a computer never holds at turn_total = 0, and no turn of a computer
\* takes more than 13 rolls: after 13 rolls the turn has ended in a bust or
\* the computer holds.
C18_ComputerTurnBounded ==
  /\ [](InGame => rolls <= 13)
  /\ [][(pc = "decide" /\ Cur.type = "computer") =>
          /\ turn_total = 0 => (choice' = "r" /\ last' # "hold")
          /\ rolls = 13 => (choice' = "h" /\ last' = "hold")
          /\ last' \in {"roll", "bust", "hold"}]_vars

C18_Witness ==
  /\ pc = "decide" /\ Cur.type = "computer"
  /\ rolls = 13 /\ last = "roll" /\ turn_total = 26

ComputerBound(i) ==
  (IF Score(i) <= 75 THEN 25 ELSE 100 - Score(i)) + 5

\* C19 as claimed: in every state of a game the turn_total of a computer in
\* turn is at most min(25, 100 - score) + 5 and a computer's score is at
\* most 105.
C19_BoundInEveryState ==
  InGame =>
    \A i \in 0..1 :
      players[i + 1].type = "computer" =>
        /\ Score(i) <= 105
        /\ i = current_player => turn_total <= ComputerBound(i)

\* C19 as amended: the bound on turn_total holds while the computer's turn
\* is in progress (at its deadline checks and decisions), where it is at most
\* 30; a computer's score is at most 105 in every state.
C19_BoundDuringTurn ==
  InGame =>
    \A i \in 0..1 :
      players[i + 1].type = "computer" =>
        /\ Score(i) <= 105
        /\ (i = current_player /\ pc \in {"check", "decide"}) =>
             /\ turn_total <= ComputerBound(i)
             /\ turn_total <= 30

C19_Witness ==
  /\ pc = "decide" /\ Cur.type = "computer"
  /\ turn_total = 30 /\ Score(current_player) = 50
  /\ Score(1 - current_player) > 0

\* C20: an untimed game of two computers that keeps running and busts only
\* finitely often reaches game over with a winner announced.
C20_EndsUnlessBustingForever ==
  []<><<last' = "bust">>_vars \/ <>(pc = "done" /\ Len(results) = 1)

C20_Witness ==
  /\ BothComputers /\ ~timed /\ pc = "done"
  /\ Len(results) = 1 /\ results[1].kind = "win"
  /\ Score(results[1].who) >= 100 /\ last = "hold"
  /\ Score(1 - results[1].who) = 0
====
